---- MODULE Spec2Model ----
(***************************************************************************)
(* In-silico PCR core of primers3 (src/utils.py): find_binding_sites,      *)
(* reverse_complement and run_virtual_pcr; the exon parser, the exon       *)
(* fetcher and the exon-junction annotation and filtering of designed      *)
(* primer pairs (src/app.py, src/modules/ncbi_fetcher.py); and the retry   *)
(* loop of run_blast_check (src/blast_check.py).                           *)
(*                                                                         *)
(* A Python str is modelled as a sequence of one-character strings, a      *)
(* Python list as a sequence, a dict with fixed keys as a record.  The key *)
(* "3prime_mismatches" is the field three_prime_mismatches.  Positions in  *)
(* the code are 0-based; TLA+ sequences are 1-based, so the window that    *)
(* the code calls template_upper[i:i+p_len] is SubSeq(t, i + 1, i + p_len).*)
(***************************************************************************)
EXTENDS Integers, Sequences, FiniteSets, TLC

VARIABLES
    pc,              \* "idle", or the name of the function that has returned
    template,        \* argument template
    search_seq,      \* argument search_seq of find_binding_sites
    max_mismatches,  \* argument max_mismatches
    is_reverse,      \* argument is_reverse of find_binding_sites
    sites,           \* list returned by find_binding_sites
    fwd,             \* argument fwd of run_virtual_pcr
    rev,             \* argument rev of run_virtual_pcr
    max_product,     \* argument max_product of run_virtual_pcr
    fwd_sites,       \* local fwd_sites of run_virtual_pcr
    rev_sites,       \* local rev_sites of run_virtual_pcr
    products,        \* list returned by run_virtual_pcr
    seq,             \* argument seq of reverse_complement
    rc,              \* string returned by reverse_complement(seq)
    rc_of_rc,        \* string returned by reverse_complement(rc)
    exons_1b,        \* argument exons_1b of exon_junctions_0based
    junctions,       \* list returned by exon_junctions_0based; argument of
                     \* annotate_primers_with_junctions
    primers,         \* argument primers of annotate_primers_with_junctions
    min_tail,        \* argument min_tail
    annotated,       \* list returned by annotate_primers_with_junctions
    primer_start,    \* argument primer_start of spans_junction
    primer_len,      \* argument primer_len of spans_junction
    junction,        \* argument junction of spans_junction
    spans,           \* value returned by spans_junction
    primers_given,   \* the primer records as they were before the call
    junctions_given, \* the junction list as it was before the call
    ann_filtered,    \* local ann_filtered of the design flow
    filtered_primers, \* local filtered_primers of the design flow
    text,            \* argument text of parse_exons_1based
    features,        \* record.features read by fetch_sequence_and_exons
    sites_forward,   \* list returned by find_binding_sites(..., is_reverse=False)
    sites_reverse,   \* list returned by find_binding_sites(..., is_reverse=True)
    max_retries,     \* argument max_retries of run_blast_check
    attempt,         \* loop variable attempt of run_blast_check
    blast_record,    \* the hits of the record read in the current attempt
    parsed,          \* number of hits of blast_record handled so far
    hits,            \* result.hits
    total_hits,      \* result.total_hits
    target_genes,    \* result.target_genes
    is_specific,     \* result.is_specific
    warning_message, \* result.warning_message
    error_message,   \* result.error_message
    queries,         \* number of NCBIWWW.qblast calls made in this run
    slept,           \* arguments of the time.sleep calls made in this run
    raised           \* number of attempts of this run that raised

matchVars == <<search_seq, is_reverse, sites>>
pcrVars == <<fwd, rev, max_product, fwd_sites, rev_sites, products>>
rcVars == <<seq, rc, rc_of_rc>>
junctionVars == <<exons_1b, junctions, primers, annotated>>
spanVars == <<primer_start, primer_len, junction, spans>>
flowVars == <<primers_given, junctions_given, ann_filtered, filtered_primers>>
parseVars == <<text, features>>
orientVars == <<sites_forward, sites_reverse>>
resultVars == <<hits, total_hits, target_genes, is_specific, warning_message, error_message>>
blastVars == <<max_retries, attempt, blast_record, parsed, queries, slept, raised, resultVars>>

vars == <<pc, template, max_mismatches, min_tail,
          matchVars, pcrVars, rcVars, junctionVars, spanVars, flowVars, parseVars, orientVars,
          blastVars>>

(***************************************************************************)
(* Bounds of the model.                                                    *)
(***************************************************************************)
MaxLen == 6          \* longest template and longest probe drawn
MaxBudget == 2       \* largest max_mismatches drawn
MaxPcrLen == 4       \* longest template given to run_virtual_pcr
MaxPrimerLen == 2    \* longest primer given to run_virtual_pcr
MaxPcrBudget == 1    \* largest max_mismatches given to run_virtual_pcr
MaxProduct == 4      \* largest max_product drawn
MaxScenarioBudget == 1   \* largest max_mismatches drawn for the decamer runs
MaxScenarioProduct == 24 \* largest max_product drawn for the decamer runs
MaxRcLen == 3        \* longest string given to reverse_complement
MaxExons == 3        \* longest exon list given to exon_junctions_0based
MaxExonCoord == 3    \* largest exon coordinate
MaxPairs == 2        \* longest list of primer pairs annotated
MaxJunctions == 2    \* longest junction list given to the annotation
MaxTail == 2         \* largest min_tail drawn
MaxSpanStart == 3    \* largest primer_start given to spans_junction
MaxSpanLen == 5      \* largest primer_len given to spans_junction
MaxWindowLen == 6    \* longest template and probe drawn when every window is accepted
MaxOrientLen == 6    \* longest template and probe searched in both orientations
MaxRetries == 3      \* largest max_retries drawn
MaxResponseHits == 2 \* most hits in one BLAST record
MaxExonFields == 3   \* most fields in a text given to parse_exons_1based
MaxFeatures == 2     \* most features of a record read by the fetcher
MaxFeatureCoord == 3 \* largest location coordinate of a feature

\* Symbols the matcher is exercised with: a plain base and the IUPAC
\* wildcard N.  The callers upper-case what they pass (src/app.py:194,
\* src/app.py:206, src/utils.py:14), so the inputs are upper-case.
MatchBases == {"A", "N"}

\* Symbols run_virtual_pcr is exercised with: a base and its complement.
PcrBases == {"A", "T"}

Min(a, b) == IF a <= b THEN a ELSE b
Max(a, b) == IF a >= b THEN a ELSE b

StringsOver(alphabet, n) == UNION {[1..m -> alphabet] : m \in 0..n}

(***************************************************************************)
(* str.upper() on the nucleotide alphabet.                                 *)
(***************************************************************************)
upper_char(c) ==
    CASE c = "a" -> "A" [] c = "t" -> "T" [] c = "g" -> "G" [] c = "c" -> "C"
      [] c = "n" -> "N" [] c = "r" -> "R" [] c = "y" -> "Y" [] c = "s" -> "S"
      [] c = "w" -> "W" [] c = "k" -> "K" [] c = "m" -> "M" [] c = "b" -> "B"
      [] c = "d" -> "D" [] c = "h" -> "H" [] c = "v" -> "V"
      [] OTHER -> c

upper(s) == [j \in 1..Len(s) |-> upper_char(s[j])]

(***************************************************************************)
(* Python slices s[-n:] and s[:n].                                         *)
(***************************************************************************)
\* Faulty variant: the slice keeps one character too many.
last_n_one_more(s, n) == SubSeq(s, Max(1, Len(s) - n), Len(s))

last_n(s, n) == SubSeq(s, Max(1, Len(s) - n + 1), Len(s))

\* Faulty variant: the slice keeps one character too many.
first_n_one_more(s, n) == SubSeq(s, 1, Min(n + 1, Len(s)))

first_n(s, n) == SubSeq(s, 1, Min(n, Len(s)))

(***************************************************************************)
(* sum(1 for a, b in zip(x, y) if a != b): zip stops at the shorter one.   *)
(***************************************************************************)
RECURSIVE count_mismatches_from(_, _, _)
count_mismatches_from(x, y, j) ==
    IF j > Min(Len(x), Len(y)) THEN 0
    ELSE (IF x[j] # y[j] THEN 1 ELSE 0) + count_mismatches_from(x, y, j + 1)

count_mismatches(x, y) == count_mismatches_from(x, y, 1)

\* Faulty variant: strict comparison.
within_budget_strict(mismatches, budget) == mismatches < budget

\* Faulty variant: a negative budget read as "no limit".
within_budget_unlimited(mismatches, budget) == budget < 0 \/ mismatches <= budget

\* utils.py:173
within_budget(mismatches, budget) == mismatches <= budget

\* utils.py:174-180: the 3'-end of the primer is the last 5 characters of
\* the search string for a forward primer and the first 5 for a reverse one.
ThreePrimeLen == 5

\* Faulty variant: the two orientations exchanged.
end_mismatches_swapped(window, search_upper, reverse) ==
    IF reverse
    THEN count_mismatches(last_n(window, ThreePrimeLen), last_n(search_upper, ThreePrimeLen))
    ELSE count_mismatches(first_n(window, ThreePrimeLen), first_n(search_upper, ThreePrimeLen))

end_mismatches(window, search_upper, reverse) ==
    IF ~reverse
    THEN count_mismatches(last_n(window, ThreePrimeLen), last_n(search_upper, ThreePrimeLen))
    ELSE count_mismatches(first_n(window, ThreePrimeLen), first_n(search_upper, ThreePrimeLen))

\* Faulty variant: "end" one past the window.
make_site_end_off(i, p_len, mismatches, end_mm, window) ==
    [start |-> i + 1,
     end |-> i + p_len + 1,
     mismatches |-> mismatches,
     three_prime_mismatches |-> end_mm,
     sequence |-> window]

\* utils.py:182-188
make_site(i, p_len, mismatches, end_mm, window) ==
    [start |-> i + 1,
     end |-> i + p_len,
     mismatches |-> mismatches,
     three_prime_mismatches |-> end_mm,
     sequence |-> window]

\* Faulty variant: the site is put at the front of the list.
add_site_front(list, site) == <<site>> \o list

\* utils.py:182: sites.append(...)
add_site(list, site) == Append(list, site)

\* Faulty variant: the range stops one window early.
last_window_start_short(t_len, p_len) == t_len - p_len - 1

\* utils.py:167: range(t_len - p_len + 1); the last value of i
last_window_start(t_len, p_len) == t_len - p_len

\* Faulty variant: the empty-input tests are missing.
returns_early_only_longer(t_len, p_len) == t_len < p_len

\* utils.py:161: the early return
returns_early(t_len, p_len) == t_len = 0 \/ p_len = 0 \/ t_len < p_len

\* utils.py:167-188: the loop, from window start i with the list so far
RECURSIVE scan_windows(_, _, _, _, _, _)
scan_windows(template_upper, search_upper, budget, reverse, i, acc) ==
    LET p_len == Len(search_upper)
        t_len == Len(template_upper)
    IN  IF i > last_window_start(t_len, p_len) THEN acc
        ELSE LET window == SubSeq(template_upper, i + 1, i + p_len)
                 mismatches == count_mismatches(window, search_upper)
                 next_acc ==
                     IF within_budget(mismatches, budget)
                     THEN add_site(acc, make_site(i, p_len, mismatches,
                              end_mismatches(window, search_upper, reverse), window))
                     ELSE acc
             IN  scan_windows(template_upper, search_upper, budget, reverse, i + 1, next_acc)

\* Faulty variant: in reverse orientation one mismatch less is tolerated.
find_binding_sites_reverse_stricter(t, s, budget, reverse) ==
    IF returns_early(Len(t), Len(s)) THEN <<>>
    ELSE scan_windows(upper(t), upper(s), IF reverse THEN budget - 1 ELSE budget,
                      reverse, 0, <<>>)

\* utils.py:156-189
find_binding_sites(t, s, budget, reverse) ==
    IF returns_early(Len(t), Len(s)) THEN <<>>
    ELSE scan_windows(upper(t), upper(s), budget, reverse, 0, <<>>)

(***************************************************************************)
(* reverse_complement, utils.py:85-89.                                     *)
(***************************************************************************)
\* Faulty variant: K and M are mapped to themselves.
complement_km_fixed(b) ==
    CASE b = "A" -> "T" [] b = "T" -> "A" [] b = "G" -> "C" [] b = "C" -> "G"
      [] b = "N" -> "N" [] b = "R" -> "Y" [] b = "Y" -> "R" [] b = "S" -> "S"
      [] b = "W" -> "W" [] b = "K" -> "K" [] b = "M" -> "M" [] b = "B" -> "V"
      [] b = "V" -> "B" [] b = "D" -> "H" [] b = "H" -> "D"
      [] OTHER -> "N"

\* utils.py:86-89: complement.get(b, "N")
complement(b) ==
    CASE b = "A" -> "T" [] b = "T" -> "A" [] b = "G" -> "C" [] b = "C" -> "G"
      [] b = "N" -> "N" [] b = "R" -> "Y" [] b = "Y" -> "R" [] b = "S" -> "S"
      [] b = "W" -> "W" [] b = "K" -> "M" [] b = "M" -> "K" [] b = "B" -> "V"
      [] b = "V" -> "B" [] b = "D" -> "H" [] b = "H" -> "D"
      [] OTHER -> "N"

\* Faulty variant: the string is complemented but not reversed.
reversed_not(s) == s

\* utils.py:89: reversed(...)
reversed(s) == [j \in 1..Len(s) |-> s[Len(s) + 1 - j]]

reverse_complement(s) ==
    LET r == reversed(upper(s)) IN [j \in 1..Len(r) |-> complement(r[j])]

(***************************************************************************)
(* run_virtual_pcr, utils.py:191-220.                                      *)
(***************************************************************************)
\* Faulty variant: the comparison admits equality.
reverse_after_forward_or_equal(f, r) == f.start <= r.end

\* utils.py:203
reverse_after_forward(f, r) == f.start < r.end

\* utils.py:204
product_size_of(f, r) == r.end - f.start + 1

\* Faulty variant: the limit is compared with the distance, not the size.
fits_product_distance(product_size, limit) == product_size - 1 <= limit

\* utils.py:205
fits_product(product_size, limit) == product_size <= limit

\* Faulty variant: the reverse counts are read from the forward site.
make_product_forward_counts(f, r, product_size) ==
    [fwd_start |-> f.start,
     fwd_end |-> f.end,
     rev_start |-> r.start,
     rev_end |-> r.end,
     size |-> product_size,
     fwd_mismatches |-> f.mismatches,
     rev_mismatches |-> f.mismatches,
     fwd_3prime_mm |-> f.three_prime_mismatches,
     rev_3prime_mm |-> f.three_prime_mismatches]

\* utils.py:206-216
make_product(f, r, product_size) ==
    [fwd_start |-> f.start,
     fwd_end |-> f.end,
     rev_start |-> r.start,
     rev_end |-> r.end,
     size |-> product_size,
     fwd_mismatches |-> f.mismatches,
     rev_mismatches |-> r.mismatches,
     fwd_3prime_mm |-> f.three_prime_mismatches,
     rev_3prime_mm |-> r.three_prime_mismatches]

\* utils.py:201-216: the inner loop, over the reverse sites rs from index n
RECURSIVE pair_with_reverse(_, _, _, _, _)
pair_with_reverse(f, rs, limit, n, acc) ==
    IF n > Len(rs) THEN acc
    ELSE LET r == rs[n]
             product_size == product_size_of(f, r)
             next_acc ==
                 IF reverse_after_forward(f, r) /\ fits_product(product_size, limit)
                 THEN Append(acc, make_product(f, r, product_size))
                 ELSE acc
         IN  pair_with_reverse(f, rs, limit, n + 1, next_acc)

\* utils.py:200-216: the outer loop, over the forward sites fs from index m
RECURSIVE pair_sites(_, _, _, _, _)
pair_sites(fs, rs, limit, m, acc) ==
    IF m > Len(fs) THEN acc
    ELSE pair_sites(fs, rs, limit, m + 1,
                    pair_with_reverse(fs[m], rs, limit, 1, acc))

\* Faulty variant: an element goes before the elements of equal key.
RECURSIVE insert_by_size_before_equal(_, _)
insert_by_size_before_equal(sorted, x) ==
    IF sorted = <<>> THEN <<x>>
    ELSE IF sorted[Len(sorted)].size < x.size THEN Append(sorted, x)
    ELSE Append(insert_by_size_before_equal(SubSeq(sorted, 1, Len(sorted) - 1), x),
                sorted[Len(sorted)])

\* list.sort(key=...) is stable: an element goes after every element of the
\* sorted list whose key is not larger.
RECURSIVE insert_by_size(_, _)
insert_by_size(sorted, x) ==
    IF sorted = <<>> THEN <<x>>
    ELSE IF sorted[Len(sorted)].size <= x.size THEN Append(sorted, x)
    ELSE Append(insert_by_size(SubSeq(sorted, 1, Len(sorted) - 1), x), sorted[Len(sorted)])

\* utils.py:219
RECURSIVE sort_by_size(_)
sort_by_size(list) ==
    IF list = <<>> THEN <<>>
    ELSE insert_by_size(sort_by_size(SubSeq(list, 1, Len(list) - 1)), list[Len(list)])

\* utils.py:193, 196
pcr_fwd_sites(t, f, budget) == find_binding_sites(upper(t), f, budget, FALSE)

\* Faulty variant: the reverse primer is searched as given.
pcr_rev_sites_as_given(t, r, budget) == find_binding_sites(upper(t), r, budget, TRUE)

\* utils.py:193-194, 197
pcr_rev_sites(t, r, budget) ==
    find_binding_sites(upper(t), reverse_complement(r), budget, TRUE)

\* utils.py:199-220: the pairing loops and the final sort, on the two site
\* lists
pair_and_sort(fs, rs, limit) == sort_by_size(pair_sites(fs, rs, limit, 1, <<>>))

\* utils.py:191-220
run_virtual_pcr(t, f, r, budget, limit) ==
    pair_and_sort(pcr_fwd_sites(t, f, budget), pcr_rev_sites(t, r, budget), limit)

(***************************************************************************)
(* Exon junctions, app.py:65-82.  An exon is the tuple <<start, end>>; a   *)
(* PrimerResult is a record of its pair_id and its four position fields    *)
(* (the remaining fields, sequences and thermodynamic values, are copied   *)
(* like these and read by none of the functions below).                    *)
(***************************************************************************)
\* Faulty variant: the end of the last exon is a junction too.
exon_junctions_0based_with_last(exons) ==
    IF exons = <<>> THEN <<>>
    ELSE [n \in 1..Len(exons) |-> exons[n][2]]

\* Faulty variant: a junction is the start coordinate of the following exon.
exon_junctions_0based_starts(exons) ==
    IF exons = <<>> THEN <<>>
    ELSE [n \in 1..(Len(exons) - 1) |-> exons[n + 1][1]]

\* app.py:65-67: [e for (s, e) in exons_1b[:-1]]
exon_junctions_0based(exons) ==
    IF exons = <<>> THEN <<>>
    ELSE [n \in 1..(Len(exons) - 1) |-> exons[n][2]]

\* Faulty variant: a tail of exactly min_tail bases is not enough.
spans_junction_longer_tails(start, len, j, tail) ==
    LET a == start
        b == start + len
        left_tail == j - a
        right_tail == b - j
    IN  (a < j /\ j < b) /\ (left_tail > tail) /\ (right_tail > tail)

\* app.py:69-72
spans_junction(start, len, j, tail) ==
    LET a == start
        b == start + len
        left_tail == j - a
        right_tail == b - j
    IN  (a < j /\ j < b) /\ (left_tail >= tail) /\ (right_tail >= tail)

\* app.py:79-80: bool([j for j in junctions if spans_junction(...)])
spans_any(start, len, js, tail) ==
    SelectSeq(js, LAMBDA j : spans_junction(start, len, j, tail)) # <<>>

\* Faulty variant: the reverse span is taken to start at right_start.
annotate_primer_reverse_from_right_start(p, js, tail) ==
    LET rev_start == p.right_start
        rev_len == p.right_length
    IN  [fwd_spans_junction |-> spans_any(p.left_start, p.left_length, js, tail),
         rev_spans_junction |-> spans_any(rev_start, rev_len, js, tail)] @@ p

\* app.py:77-81: the body of the loop; d is a copy of p.__dict__ with the
\* two keys set
annotate_primer(p, js, tail) ==
    LET rev_start == p.right_start - p.right_length
        rev_len == p.right_length
    IN  [fwd_spans_junction |-> spans_any(p.left_start, p.left_length, js, tail),
         rev_spans_junction |-> spans_any(rev_start, rev_len, js, tail)] @@ p

\* app.py:74-82
annotate_primers_with_junctions(ps, js, tail) ==
    [n \in 1..Len(ps) |-> annotate_primer(ps[n], js, tail)]

\* Faulty variant: d is p.__dict__ itself, so the two keys land on p.
primer_after_annotation_without_copy(p, js, tail) == annotate_primer(p, js, tail)

\* app.py:77: d is a copy of p.__dict__; the assignments at lines 79-80 write
\* the copy and p stays as it was
primer_after_annotation(p, js, tail) == p

\* The primer objects after the loop of app.py:76-81.
primers_after_annotation(ps, js, tail) ==
    [n \in 1..Len(ps) |-> primer_after_annotation(ps[n], js, tail)]

(***************************************************************************)
(* parse_exons_1based, app.py:50-63, on a text given as a sequence of      *)
(* characters.                                                             *)
(***************************************************************************)
Digits == {"0", "1", "2", "3", "4", "5", "6", "7", "8", "9"}
Blanks == {" ", "\t"}
RangeMarks == {"-", ":", "."}

\* app.py:53: text.replace(",", "\n").replace(";", "\n")
replace_separators(txt) ==
    [j \in 1..Len(txt) |-> IF txt[j] \in {",", ";"} THEN "\n" ELSE txt[j]]

\* app.py:54: splitlines(); cur is the line being read from position j
RECURSIVE splitlines(_, _, _, _)
splitlines(txt, j, cur, acc) ==
    IF j > Len(txt) THEN (IF cur = <<>> THEN acc ELSE Append(acc, cur))
    ELSE IF txt[j] = "\n" THEN splitlines(txt, j + 1, <<>>, Append(acc, cur))
    ELSE splitlines(txt, j + 1, Append(cur, txt[j]), acc)

\* Number of characters of the class cls that stand in line from position j.
RECURSIVE run_of(_, _, _)
run_of(line, j, cls) ==
    IF j > Len(line) \/ line[j] \notin cls THEN 0
    ELSE 1 + run_of(line, j + 1, cls)

\* Number of characters of the class cls that end line before position j.
RECURSIVE run_back(_, _, _)
run_back(line, j, cls) ==
    IF j < 1 \/ line[j] \notin cls THEN 0
    ELSE 1 + run_back(line, j - 1, cls)

\* app.py:55: line.strip()
strip(line) ==
    LET lead == run_of(line, 1, Blanks \cup {"\n"})
        trail == run_back(line, Len(line), Blanks \cup {"\n"})
    IN  IF lead = Len(line) THEN <<>>
        ELSE SubSeq(line, lead + 1, Len(line) - trail)

digit_value(c) ==
    CASE c = "0" -> 0 [] c = "1" -> 1 [] c = "2" -> 2 [] c = "3" -> 3 [] c = "4" -> 4
      [] c = "5" -> 5 [] c = "6" -> 6 [] c = "7" -> 7 [] c = "8" -> 8 [] c = "9" -> 9

\* int() of a string of digits
RECURSIVE int_of(_)
int_of(ds) ==
    IF ds = <<>> THEN 0
    ELSE 10 * int_of(SubSeq(ds, 1, Len(ds) - 1)) + digit_value(ds[Len(ds)])

\* app.py:57: [-:.]{1,2}
marks_accepted(n) == n >= 1 /\ n <= 2

\* app.py:57-59: re.match(r"^(\d+)\s*[-:.]{1,2}\s*(\d+)$", line); the value is
\* <<int(group 1), int(group 2)>>, or <<>> when the line does not match.  The
\* character classes are disjoint, so the greedy runs are the only split.
match_exon(line) ==
    LET d1 == run_of(line, 1, Digits)
        b1 == run_of(line, 1 + d1, Blanks)
        mk == run_of(line, 1 + d1 + b1, RangeMarks)
        b2 == run_of(line, 1 + d1 + b1 + mk, Blanks)
        d2 == run_of(line, 1 + d1 + b1 + mk + b2, Digits)
    IN  IF d1 >= 1 /\ marks_accepted(mk) /\ d2 >= 1 /\ d1 + b1 + mk + b2 + d2 = Len(line)
        THEN <<int_of(SubSeq(line, 1, d1)),
               int_of(SubSeq(line, Len(line) - d2 + 1, Len(line)))>>
        ELSE <<>>

\* app.py:60
exon_accepted(x) == x[1] > 0 /\ x[2] > 0 /\ x[2] >= x[1]

\* app.py:54-61: the loop over the lines, from line n
RECURSIVE collect_exons(_, _, _)
collect_exons(lines, n, acc) ==
    IF n > Len(lines) THEN acc
    ELSE LET line == strip(lines[n])
             x == match_exon(line)
         IN  collect_exons(lines, n + 1,
                 IF line # <<>> /\ x # <<>> /\ exon_accepted(x) THEN Append(acc, x) ELSE acc)

\* app.py:62: the key (x[0], x[1])
start_end_le(x, y) == x[1] < y[1] \/ (x[1] = y[1] /\ x[2] <= y[2])

\* Insertion of x into a list sorted by (start, end), after the equal keys.
RECURSIVE insert_by_start_end(_, _)
insert_by_start_end(sorted, x) ==
    IF sorted = <<>> THEN <<x>>
    ELSE IF start_end_le(sorted[Len(sorted)], x) THEN Append(sorted, x)
    ELSE Append(insert_by_start_end(SubSeq(sorted, 1, Len(sorted) - 1), x),
                sorted[Len(sorted)])

\* app.py:62: exons.sort(key=lambda x: (x[0], x[1]))
RECURSIVE sort_by_start_end(_)
sort_by_start_end(list) ==
    IF list = <<>> THEN <<>>
    ELSE insert_by_start_end(sort_by_start_end(SubSeq(list, 1, Len(list) - 1)),
                             list[Len(list)])

\* app.py:50-63
parse_exons_1based(txt) ==
    sort_by_start_end(collect_exons(splitlines(replace_separators(txt), 1, <<>>, <<>>),
                                    1, <<>>))

(***************************************************************************)
(* fetch_sequence_and_exons, ncbi_fetcher.py:30-44, on the features of the *)
(* record read.  A feature is [type, start, end] with the 0-based          *)
(* half-open location of Biopython.                                        *)
(***************************************************************************)
\* ncbi_fetcher.py:33-39: the loop over record.features, from feature n
RECURSIVE collect_exon_features(_, _, _)
collect_exon_features(fs, n, acc) ==
    IF n > Len(fs) THEN acc
    ELSE collect_exon_features(fs, n + 1,
             IF fs[n].type = "exon"
             THEN Append(acc, <<fs[n].start + 1, fs[n].end>>)
             ELSE acc)

\* Insertion of x into a list sorted by start, after the equal keys.
RECURSIVE insert_by_start(_, _)
insert_by_start(sorted, x) ==
    IF sorted = <<>> THEN <<x>>
    ELSE IF sorted[Len(sorted)][1] <= x[1] THEN Append(sorted, x)
    ELSE Append(insert_by_start(SubSeq(sorted, 1, Len(sorted) - 1), x),
                sorted[Len(sorted)])

\* ncbi_fetcher.py:42: exons_1based.sort(key=lambda x: x[0])
RECURSIVE sort_by_start(_)
sort_by_start(list) ==
    IF list = <<>> THEN <<>>
    ELSE insert_by_start(sort_by_start(SubSeq(list, 1, Len(list) - 1)), list[Len(list)])

\* ncbi_fetcher.py:30-44: the exon list of a record that was read
exons_of_record(fs) == sort_by_start(collect_exon_features(fs, 1, <<>>))

(***************************************************************************)
(* The junction branch of the design flow, app.py:355-370.                 *)
(***************************************************************************)
\* Faulty variant: a pair is kept only when both primers span a junction.
keeps_both(a) == a.fwd_spans_junction /\ a.rev_spans_junction

\* app.py:358: the condition of the list comprehension
keeps(a) == a.fwd_spans_junction \/ a.rev_spans_junction

\* app.py:358
filter_annotated(ann) == SelectSeq(ann, keeps)

\* app.py:362-363, 367: index of the first record of af with the pair_id id,
\* searched from index n; 0 when there is none
RECURSIVE first_with_pair_id(_, _, _)
first_with_pair_id(af, id, n) ==
    IF n > Len(af) THEN 0
    ELSE IF af[n].pair_id = id THEN n
    ELSE first_with_pair_id(af, id, n + 1)

\* app.py:364-365: the two attributes are set on the PrimerResult p itself
flag_primer(p, a) ==
    [fwd_spans_junction |-> a.fwd_spans_junction,
     rev_spans_junction |-> a.rev_spans_junction] @@ p

\* app.py:361-367: the PrimerResult p after the inner loop
primer_after_flow(p, af) ==
    LET n == first_with_pair_id(af, p.pair_id, 1)
    IN  IF n = 0 THEN p ELSE flag_primer(p, af[n])

\* app.py:360-367: the objects of the list primers after the two loops
primers_after_flow(ps, af) == [n \in 1..Len(ps) |-> primer_after_flow(ps[n], af)]

\* app.py:360-367: filtered_primers collects, in the order of primers, the
\* objects for which the inner loop found a record; n is the index in ps
RECURSIVE collect_filtered_primers(_, _, _, _)
collect_filtered_primers(ps, af, n, acc) ==
    IF n > Len(ps) THEN acc
    ELSE collect_filtered_primers(ps, af, n + 1,
             IF first_with_pair_id(af, ps[n].pair_id, 1) = 0 THEN acc
             ELSE Append(acc, primer_after_flow(ps[n], af)))

(***************************************************************************)
(* run_blast_check, blast_check.py:78-185.  A hit of a record is           *)
(* [attempt, index, high]: the attempt that read it, its place in the      *)
(* record, and whether its identity reaches identity_threshold with a      *)
(* coverage of 80 or more; the title of hit k names gene k.                *)
(***************************************************************************)
\* Positions inside a run of run_blast_check.
BlastRunning == {"for_attempt", "qblast", "parse_hits", "except"}

\* Faulty variant: the last failed attempt sleeps and goes round again.
retries_left_one_more(a, retries) == a < retries

\* blast_check.py:178
retries_left(a, retries) == a < retries - 1

\* blast_check.py:179
sleep_seconds(a) == 5 * (a + 1)

\* blast_check.py:159: the hits of result.hits with high identity and coverage
high_identity_hits(hs) == SelectSeq(hs, LAMBDA h : h.high)

\* blast_check.py:161-169
specific_after(hs) == ~(Len(high_identity_hits(hs)) > 5)

warning_after(hs) ==
    IF Len(high_identity_hits(hs)) > 5 THEN "not specific"
    ELSE IF Len(high_identity_hits(hs)) > 1 THEN "several matches"
    ELSE ""

(***************************************************************************)
(* The functions as a state machine: from "idle" a function is called with *)
(* arguments drawn from the bounded input sets and returns; the state then *)
(* holds the arguments and the returned value until control is back at the *)
(* caller.                                                                 *)
(***************************************************************************)
\* The decamer AAAAACCCCC, its reverse complement, and the two 20-base
\* templates made of them.
Decamer == <<"A", "A", "A", "A", "A", "C", "C", "C", "C", "C">>
DecamerRc == <<"G", "G", "G", "G", "G", "T", "T", "T", "T", "T">>
TwoDecamers == Decamer \o Decamer
DecamerThenRc == Decamer \o DecamerRc

\* utils.py:191: the default of max_product
DefaultMaxProduct == 5000

ScenarioLimits == (0..MaxScenarioProduct) \cup {DefaultMaxProduct}

\* The 15 symbols validate_sequence accepts (utils.py:27), and a character
\* outside them.
IupacBases == {"A", "T", "G", "C", "N", "R", "Y", "S", "W", "K", "M", "B", "D", "H", "V"}
RcChars == IupacBases \cup {"X"}

\* Exon lists as the parser and the fetcher hand them over: intervals with
\* 1 <= start <= end, sorted by start (app.py:60-62, ncbi_fetcher.py:42).
ExonIntervals == {x \in (1..MaxExonCoord) \X (1..MaxExonCoord) : x[1] <= x[2]}

ExonLists ==
    {l \in UNION {[1..n -> ExonIntervals] : n \in 0..MaxExons} :
        \A n \in 1..(Len(l) - 1) : l[n][1] <= l[n + 1][1]}

\* Primer pairs the annotation is exercised with: forward primers
\* [left_start, left_start + left_length) and reverse primers
\* [right_start - right_length, right_start) of 2 or 4 bases around the
\* junction coordinates 1, 2, 3.
LeftStarts == {0, 1}
RightStarts == {4, 5}
PrimerLengths == {2, 4}
JunctionCoords == {1, 2, 3}

PrimerGeometries ==
    [left_start : LeftStarts, left_length : PrimerLengths,
     right_start : RightStarts, right_length : PrimerLengths]

\* primer_design.py:198: pair_id is the index of the pair
PrimerLists ==
    {[n \in 1..Len(g) |-> [pair_id |-> n - 1] @@ g[n]] :
        g \in UNION {[1..n -> PrimerGeometries] : n \in 0..MaxPairs}}

JunctionLists == UNION {[1..n -> JunctionCoords] : n \in 0..MaxJunctions}

\* app.py:169: min_tail is at least 1
Tails == 1..MaxTail

\* Exon lists the design flow is exercised with (1-based inclusive, sorted
\* by start as the parser and the fetcher leave them; the last one overlaps,
\* which neither of them excludes).
FlowExonLists ==
    { << <<1, 6>> >>,
      << <<1, 4>>, <<5, 6>> >>,
      << <<1, 2>>, <<3, 6>> >>,
      << <<1, 1>>, <<2, 6>> >>,
      << <<1, 1>>, <<2, 3>>, <<4, 6>> >>,
      << <<1, 4>>, <<2, 6>> >> }

\* Fields a text for parse_exons_1based is made of: accepted intervals in the
\* spellings of the pattern, and fields the parser drops.
ExonFields ==
    { <<"1", "-", "3">>,
      <<"2", ":", "5">>,
      <<" ", "4", " ", ".", ".", " ", "6", " ">>,
      <<"0", "2", "-", "2">>,
      <<"1", "0", "-", "1", "2">>,
      <<"5", "-", "2">>,
      <<"0", "-", "3">>,
      <<"1", "-", "-", "-", "4">>,
      <<"7">>,
      <<>> }

TextSeparators == {",", ";", "\n"}

\* The fields joined by the separator sep.
RECURSIVE join_fields(_, _)
join_fields(fields, sep) ==
    IF fields = <<>> THEN <<>>
    ELSE IF Len(fields) = 1 THEN fields[1]
    ELSE fields[1] \o <<sep>> \o join_fields(Tail(fields), sep)

ExonTexts ==
    {join_fields(fields, sep) :
        fields \in UNION {[1..n -> ExonFields] : n \in 0..MaxExonFields},
        sep \in TextSeparators}

\* Features of a GenBank record: the location a..b of the flat file is read
\* as start = a - 1, end = b, so start < end.
RecordFeatures ==
    {f \in [type : {"exon", "CDS"}, start : 0..MaxFeatureCoord, end : 0..MaxFeatureCoord] :
        f.start < f.end}

FeatureLists == UNION {[1..n -> RecordFeatures] : n \in 0..MaxFeatures}

Budgets == (0 - 2)..MaxBudget
PcrBudgets == (0 - 1)..MaxPcrBudget
ProductLimits == (0 - 1)..MaxProduct

Idle ==
    /\ pc = "idle"
    /\ template = <<>>
    /\ search_seq = <<>>
    /\ max_mismatches = 0
    /\ is_reverse = FALSE
    /\ sites = <<>>
    /\ fwd = <<>>
    /\ rev = <<>>
    /\ max_product = 0
    /\ fwd_sites = <<>>
    /\ rev_sites = <<>>
    /\ products = <<>>
    /\ seq = <<>>
    /\ rc = <<>>
    /\ rc_of_rc = <<>>
    /\ exons_1b = <<>>
    /\ junctions = <<>>
    /\ primers = <<>>
    /\ min_tail = 0
    /\ annotated = <<>>
    /\ primer_start = 0
    /\ primer_len = 0
    /\ junction = 0
    /\ spans = FALSE
    /\ primers_given = <<>>
    /\ junctions_given = <<>>
    /\ ann_filtered = <<>>
    /\ filtered_primers = <<>>
    /\ text = <<>>
    /\ features = <<>>
    /\ sites_forward = <<>>
    /\ sites_reverse = <<>>
    /\ max_retries = 0
    /\ attempt = 0
    /\ blast_record = <<>>
    /\ parsed = 0
    /\ hits = <<>>
    /\ total_hits = 0
    /\ target_genes = {}
    /\ is_specific = TRUE
    /\ warning_message = ""
    /\ error_message = ""
    /\ queries = 0
    /\ slept = <<>>
    /\ raised = 0

call_find_binding_sites ==
    /\ pc = "idle"
    /\ \E t \in StringsOver(MatchBases, MaxLen), s \in StringsOver(MatchBases, MaxLen),
          k \in Budgets, r \in BOOLEAN :
          /\ template' = t
          /\ search_seq' = s
          /\ max_mismatches' = k
          /\ is_reverse' = r
          /\ sites' = find_binding_sites(t, s, k, r)
    /\ pc' = "find_binding_sites"
    /\ UNCHANGED <<blastVars, orientVars, parseVars, flowVars, min_tail, pcrVars, rcVars, junctionVars, spanVars>>

\* find_binding_sites with max_mismatches = len(search_seq): every window
\* of the template is accepted, whatever its mismatches
call_find_binding_sites_on_every_window ==
    /\ pc = "idle"
    /\ \E t \in StringsOver(MatchBases, MaxWindowLen),
          s \in StringsOver(MatchBases, MaxWindowLen), r \in BOOLEAN :
          /\ template' = t
          /\ search_seq' = s
          /\ max_mismatches' = Len(s)
          /\ is_reverse' = r
          /\ sites' = find_binding_sites(t, s, Len(s), r)
    /\ pc' = "find_binding_sites"
    /\ UNCHANGED <<blastVars, orientVars, parseVars, flowVars, min_tail, pcrVars, rcVars, junctionVars, spanVars>>

\* find_binding_sites called twice on the same template, probe and
\* max_mismatches, once in each orientation
call_find_binding_sites_in_both_orientations ==
    /\ pc = "idle"
    /\ \E t \in StringsOver(MatchBases, MaxOrientLen),
          s \in StringsOver(MatchBases, MaxOrientLen), k \in 0..MaxBudget :
          /\ template' = t
          /\ search_seq' = s
          /\ max_mismatches' = k
          /\ sites_forward' = find_binding_sites(t, s, k, FALSE)
          /\ sites_reverse' = find_binding_sites(t, s, k, TRUE)
    /\ pc' = "find_binding_sites_in_both_orientations"
    /\ UNCHANGED <<blastVars, parseVars, flowVars, min_tail, is_reverse, sites,
                   pcrVars, rcVars, junctionVars, spanVars>>

call_run_virtual_pcr ==
    /\ pc = "idle"
    /\ \E t \in StringsOver(PcrBases, MaxPcrLen), f \in StringsOver(PcrBases, MaxPrimerLen),
          r \in StringsOver(PcrBases, MaxPrimerLen), k \in PcrBudgets :
          \* utils.py:196-197: the two site lists do not depend on
          \* max_product; each is evaluated once for all the limits drawn
          \E fs \in {pcr_fwd_sites(t, f, k)}, rs \in {pcr_rev_sites(t, r, k)} :
              \E limit \in ProductLimits :
                /\ template' = t
                /\ fwd' = f
                /\ rev' = r
                /\ max_mismatches' = k
                /\ max_product' = limit
                /\ fwd_sites' = fs
                /\ rev_sites' = rs
                /\ products' = pair_and_sort(fs, rs, limit)
    /\ pc' = "run_virtual_pcr"
    /\ UNCHANGED <<blastVars, orientVars, parseVars, flowVars, min_tail, matchVars, rcVars, junctionVars, spanVars>>

\* run_virtual_pcr on the 20-base templates with the decamer primers.
call_run_virtual_pcr_on_decamers ==
    /\ pc = "idle"
    /\ \E t \in {TwoDecamers, DecamerThenRc}, f \in {Decamer, DecamerRc},
          r \in {Decamer, DecamerRc}, k \in 0..MaxScenarioBudget, limit \in ScenarioLimits :
          /\ template' = t
          /\ fwd' = f
          /\ rev' = r
          /\ max_mismatches' = k
          /\ max_product' = limit
          /\ fwd_sites' = pcr_fwd_sites(t, f, k)
          /\ rev_sites' = pcr_rev_sites(t, r, k)
          /\ products' = run_virtual_pcr(t, f, r, k, limit)
    /\ pc' = "run_virtual_pcr"
    /\ UNCHANGED <<blastVars, orientVars, parseVars, flowVars, min_tail, matchVars, rcVars, junctionVars, spanVars>>

call_reverse_complement ==
    /\ pc = "idle"
    /\ \E s \in StringsOver(RcChars, MaxRcLen) :
          /\ seq' = s
          /\ rc' = reverse_complement(s)
    /\ pc' = "reverse_complement"
    /\ UNCHANGED <<blastVars, orientVars, parseVars, flowVars, template, max_mismatches, min_tail, rc_of_rc,
                   matchVars, pcrVars, junctionVars, spanVars>>

\* reverse_complement called on the string it has returned.
call_reverse_complement_on_result ==
    /\ pc = "reverse_complement"
    /\ rc_of_rc' = reverse_complement(rc)
    /\ pc' = "reverse_complement_twice"
    /\ UNCHANGED <<blastVars, orientVars, parseVars, flowVars, template, max_mismatches, min_tail, seq, rc,
                   matchVars, pcrVars, junctionVars, spanVars>>

call_exon_junctions_0based ==
    /\ pc = "idle"
    /\ \E l \in ExonLists :
          /\ exons_1b' = l
          /\ junctions' = exon_junctions_0based(l)
    /\ pc' = "exon_junctions_0based"
    /\ UNCHANGED <<blastVars, orientVars, parseVars, flowVars, template, max_mismatches, min_tail, primers, annotated,
                   matchVars, pcrVars, rcVars, spanVars>>

call_annotate_primers_with_junctions ==
    /\ pc = "idle"
    /\ \E ps \in PrimerLists, js \in JunctionLists, tail \in Tails :
          /\ primers_given' = ps
          /\ junctions_given' = js
          /\ min_tail' = tail
          /\ annotated' = annotate_primers_with_junctions(ps, js, tail)
          /\ primers' = primers_after_annotation(ps, js, tail)
          /\ junctions' = js
    /\ pc' = "annotate_primers_with_junctions"
    /\ UNCHANGED <<blastVars, orientVars, parseVars, template, max_mismatches, exons_1b, ann_filtered, filtered_primers,
                   matchVars, pcrVars, rcVars, spanVars>>

call_spans_junction ==
    /\ pc = "idle"
    /\ \E start \in 0..MaxSpanStart, len \in 1..MaxSpanLen,
          j \in 0..(MaxSpanStart + MaxSpanLen), tail \in Tails :
          /\ primer_start' = start
          /\ primer_len' = len
          /\ junction' = j
          /\ min_tail' = tail
          /\ spans' = spans_junction(start, len, j, tail)
    /\ pc' = "spans_junction"
    /\ UNCHANGED <<blastVars, orientVars, parseVars, flowVars, template, max_mismatches,
                   matchVars, pcrVars, rcVars, junctionVars>>

call_parse_exons_1based ==
    /\ pc = "idle"
    /\ \E txt \in ExonTexts :
          /\ text' = txt
          /\ exons_1b' = parse_exons_1based(txt)
    /\ pc' = "parse_exons_1based"
    /\ UNCHANGED <<blastVars, orientVars, template, max_mismatches, min_tail, features, junctions, primers,
                   annotated, matchVars, pcrVars, rcVars, spanVars, flowVars>>

\* ncbi_fetcher.py:24-42: the record was fetched and read
call_fetch_sequence_and_exons ==
    /\ pc = "idle"
    /\ \E fs \in FeatureLists :
          /\ features' = fs
          /\ exons_1b' = exons_of_record(fs)
    /\ pc' = "fetch_sequence_and_exons"
    /\ UNCHANGED <<blastVars, orientVars, template, max_mismatches, min_tail, text, junctions, primers,
                   annotated, matchVars, pcrVars, rcVars, spanVars, flowVars>>

\* ncbi_fetcher.py:20-21, 46-47: an empty accession, or an exception while
\* fetching or reading: the exon list returned is []
fetch_sequence_and_exons_fails ==
    /\ pc = "idle"
    /\ exons_1b' = <<>>
    /\ pc' = "fetch_sequence_and_exons_failed"
    /\ UNCHANGED <<blastVars, orientVars, template, max_mismatches, min_tail, text, features, junctions, primers,
                   annotated, matchVars, pcrVars, rcVars, spanVars, flowVars>>

\* annotate_primers_with_junctions on one pair and one junction; the forward
\* span is [fs, fs + fl), the reverse span [rs, rs + rl)
call_annotate_primers_with_one_junction ==
    /\ pc = "idle"
    /\ \E fs \in 0..MaxSpanStart, fl \in 1..MaxSpanLen,
          rs \in 0..MaxSpanStart, rl \in 1..MaxSpanLen,
          j \in 0..(MaxSpanStart + MaxSpanLen), tail \in Tails :
          LET ps == << [pair_id |-> 0, left_start |-> fs, left_length |-> fl,
                        right_start |-> rs + rl, right_length |-> rl] >>
          IN  /\ primers_given' = ps
              /\ junctions_given' = <<j>>
              /\ min_tail' = tail
              /\ annotated' = annotate_primers_with_junctions(ps, <<j>>, tail)
              /\ primers' = primers_after_annotation(ps, <<j>>, tail)
              /\ junctions' = <<j>>
    /\ pc' = "annotate_primers_with_junctions"
    /\ UNCHANGED <<blastVars, orientVars, parseVars, template, max_mismatches, exons_1b, ann_filtered, filtered_primers,
                   matchVars, pcrVars, rcVars, spanVars>>

\* app.py:355-367 with enforce_junction set and a non-empty exon list
design_flow_enforce_junction ==
    /\ pc = "idle"
    /\ \E exons \in FlowExonLists, ps \in PrimerLists, tail \in Tails :
          \E js \in {exon_junctions_0based(exons)} :
          \E ann \in {annotate_primers_with_junctions(ps, js, tail)} :
          \E af \in {filter_annotated(ann)} :
             /\ exons_1b' = exons
             /\ primers_given' = ps
             /\ min_tail' = tail
             /\ junctions_given' = js
             /\ junctions' = js
             /\ annotated' = ann
             /\ ann_filtered' = af
             /\ primers' = primers_after_flow(primers_after_annotation(ps, js, tail), af)
             /\ filtered_primers' =
                    collect_filtered_primers(primers_after_annotation(ps, js, tail), af, 1, <<>>)
    /\ pc' = "design_flow"
    /\ UNCHANGED <<blastVars, orientVars, parseVars, template, max_mismatches, matchVars, pcrVars, rcVars, spanVars>>

\* blast_check.py:89-96: the result is built with its defaults
call_run_blast_check ==
    /\ pc = "idle"
    /\ \E n \in 0..MaxRetries : max_retries' = n
    /\ attempt' = 0
    /\ pc' = "for_attempt"
    /\ UNCHANGED <<blast_record, parsed, queries, slept, raised, resultVars,
                   template, max_mismatches, min_tail, matchVars, pcrVars, rcVars,
                   junctionVars, spanVars, flowVars, parseVars, orientVars>>

\* blast_check.py:98: for attempt in range(max_retries); line 185 after the
\* loop
for_attempt ==
    /\ pc = "for_attempt"
    /\ pc' = IF attempt < max_retries THEN "qblast" ELSE "run_blast_check"
    /\ UNCHANGED <<blastVars, template, max_mismatches, min_tail, matchVars, pcrVars,
                   rcVars, junctionVars, spanVars, flowVars, parseVars, orientVars>>

\* blast_check.py:103-115: the query is answered and the first record read
qblast_returns ==
    /\ pc = "qblast"
    /\ queries' = queries + 1
    /\ \E flags \in UNION {[1..n -> BOOLEAN] : n \in 0..MaxResponseHits} :
          blast_record' =
              [k \in 1..Len(flags) |-> [attempt |-> attempt, index |-> k, high |-> flags[k]]]
    /\ parsed' = 0
    /\ pc' = "parse_hits"
    /\ UNCHANGED <<max_retries, attempt, slept, raised, resultVars,
                   template, max_mismatches, min_tail, matchVars, pcrVars, rcVars,
                   junctionVars, spanVars, flowVars, parseVars, orientVars>>

\* blast_check.py:103-115: the query, or the reading of its answer, raises
qblast_raises ==
    /\ pc = "qblast"
    /\ queries' = queries + 1
    /\ pc' = "except"
    /\ UNCHANGED <<max_retries, attempt, blast_record, parsed, slept, raised, resultVars,
                   template, max_mismatches, min_tail, matchVars, pcrVars, rcVars,
                   junctionVars, spanVars, flowVars, parseVars, orientVars>>

\* blast_check.py:117-155: one hit is built and appended to result.hits
append_hit ==
    /\ pc = "parse_hits"
    /\ parsed < Len(blast_record)
    /\ hits' = Append(hits, blast_record[parsed + 1])
    /\ target_genes' = IF blast_record[parsed + 1].high
                       THEN target_genes \cup {blast_record[parsed + 1].index}
                       ELSE target_genes
    /\ parsed' = parsed + 1
    /\ UNCHANGED <<pc, max_retries, attempt, blast_record, queries, slept, raised,
                   total_hits, is_specific, warning_message, error_message,
                   template, max_mismatches, min_tail, matchVars, pcrVars, rcVars,
                   junctionVars, spanVars, flowVars, parseVars, orientVars>>

\* blast_check.py:117-136: building the next hit raises (a division by a
\* zero align_length, a missing field), before it is appended
parse_raises ==
    /\ pc = "parse_hits"
    /\ parsed < Len(blast_record)
    /\ pc' = "except"
    /\ UNCHANGED <<blastVars, template, max_mismatches, min_tail, matchVars, pcrVars,
                   rcVars, junctionVars, spanVars, flowVars, parseVars, orientVars>>

\* blast_check.py:157-171: the loops are over; return result
attempt_succeeds ==
    /\ pc = "parse_hits"
    /\ parsed = Len(blast_record)
    /\ total_hits' = Len(hits)
    /\ is_specific' = (is_specific /\ specific_after(hits))
    /\ warning_message' = (IF warning_after(hits) = "" THEN warning_message
                           ELSE warning_after(hits))
    /\ pc' = "run_blast_check"
    /\ UNCHANGED <<max_retries, attempt, blast_record, parsed, queries, slept, raised,
                   hits, target_genes, error_message,
                   template, max_mismatches, min_tail, matchVars, pcrVars, rcVars,
                   junctionVars, spanVars, flowVars, parseVars, orientVars>>

\* blast_check.py:173-183: except Exception
handle_exception ==
    /\ pc = "except"
    /\ raised' = raised + 1
    /\ IF retries_left(attempt, max_retries)
       THEN /\ slept' = Append(slept, sleep_seconds(attempt))
            /\ attempt' = attempt + 1
            /\ pc' = "for_attempt"
            /\ UNCHANGED error_message
       ELSE /\ error_message' = "API failure"
            /\ pc' = "run_blast_check"
            /\ UNCHANGED <<slept, attempt>>
    /\ UNCHANGED <<max_retries, blast_record, parsed, queries,
                   hits, total_hits, target_genes, is_specific, warning_message,
                   template, max_mismatches, min_tail, matchVars, pcrVars, rcVars,
                   junctionVars, spanVars, flowVars, parseVars, orientVars>>

\* A step of a run of run_blast_check that has started.
blast_step ==
    \/ for_attempt
    \/ qblast_returns
    \/ qblast_raises
    \/ append_hit
    \/ parse_raises
    \/ attempt_succeeds
    \/ handle_exception

\* The caller has the value returned and goes on; a run of run_blast_check
\* is left only through one of its return statements.
back_to_caller ==
    /\ pc \notin {"idle"} \cup BlastRunning
    /\ pc' = "idle"
    /\ template' = <<>>
    /\ search_seq' = <<>>
    /\ max_mismatches' = 0
    /\ is_reverse' = FALSE
    /\ sites' = <<>>
    /\ fwd' = <<>>
    /\ rev' = <<>>
    /\ max_product' = 0
    /\ fwd_sites' = <<>>
    /\ rev_sites' = <<>>
    /\ products' = <<>>
    /\ seq' = <<>>
    /\ rc' = <<>>
    /\ rc_of_rc' = <<>>
    /\ exons_1b' = <<>>
    /\ junctions' = <<>>
    /\ primers' = <<>>
    /\ min_tail' = 0
    /\ annotated' = <<>>
    /\ primer_start' = 0
    /\ primer_len' = 0
    /\ junction' = 0
    /\ spans' = FALSE
    /\ primers_given' = <<>>
    /\ junctions_given' = <<>>
    /\ ann_filtered' = <<>>
    /\ filtered_primers' = <<>>
    /\ text' = <<>>
    /\ features' = <<>>
    /\ sites_forward' = <<>>
    /\ sites_reverse' = <<>>
    /\ max_retries' = 0
    /\ attempt' = 0
    /\ blast_record' = <<>>
    /\ parsed' = 0
    /\ hits' = <<>>
    /\ total_hits' = 0
    /\ target_genes' = {}
    /\ is_specific' = TRUE
    /\ warning_message' = ""
    /\ error_message' = ""
    /\ queries' = 0
    /\ slept' = <<>>
    /\ raised' = 0

InitMatch == Idle

NextMatch == call_find_binding_sites \/ back_to_caller

SpecMatch == InitMatch /\ [][NextMatch]_vars

InitWindows == Idle

NextWindows == call_find_binding_sites_on_every_window \/ back_to_caller

SpecWindows == InitWindows /\ [][NextWindows]_vars

InitOrient == Idle

NextOrient == call_find_binding_sites_in_both_orientations \/ back_to_caller

SpecOrient == InitOrient /\ [][NextOrient]_vars

InitPcr == Idle

NextPcr == call_run_virtual_pcr \/ back_to_caller

SpecPcr == InitPcr /\ [][NextPcr]_vars

InitScenario == Idle

NextScenario == call_run_virtual_pcr_on_decamers \/ back_to_caller

SpecScenario == InitScenario /\ [][NextScenario]_vars

InitRc == Idle

NextRc == call_reverse_complement \/ call_reverse_complement_on_result \/ back_to_caller

SpecRc == InitRc /\ [][NextRc]_vars

InitJunction == Idle

NextJunction ==
    \/ call_exon_junctions_0based
    \/ call_annotate_primers_with_junctions
    \/ back_to_caller

SpecJunction == InitJunction /\ [][NextJunction]_vars

InitExons == Idle

NextExons ==
    \/ call_parse_exons_1based
    \/ call_fetch_sequence_and_exons
    \/ fetch_sequence_and_exons_fails
    \/ back_to_caller

SpecExons == InitExons /\ [][NextExons]_vars

InitBlast == Idle

NextBlast == call_run_blast_check \/ blast_step \/ back_to_caller

\* The interpreter goes on with a run that has started, and every remote
\* query ends, with an answer or with an exception.
SpecBlast == InitBlast /\ [][NextBlast]_vars /\ WF_vars(blast_step)

InitFlow == Idle

NextFlow == design_flow_enforce_junction \/ back_to_caller

SpecFlow == InitFlow /\ [][NextFlow]_vars

InitSpan == Idle

NextSpan ==
    \/ call_spans_junction
    \/ call_annotate_primers_with_one_junction
    \/ back_to_caller

SpecSpan == InitSpan /\ [][NextSpan]_vars

Init == Idle

Next ==
    \/ call_exon_junctions_0based
    \/ call_annotate_primers_with_junctions
    \/ call_spans_junction
    \/ call_annotate_primers_with_one_junction
    \/ design_flow_enforce_junction
    \/ call_parse_exons_1based
    \/ call_fetch_sequence_and_exons
    \/ fetch_sequence_and_exons_fails
    \/ call_find_binding_sites
    \/ call_find_binding_sites_on_every_window
    \/ call_find_binding_sites_in_both_orientations
    \/ call_run_blast_check
    \/ blast_step
    \/ call_run_virtual_pcr
    \/ call_run_virtual_pcr_on_decamers
    \/ call_reverse_complement
    \/ call_reverse_complement_on_result
    \/ back_to_caller

Spec == Init /\ [][Next]_vars

(***************************************************************************)
(* Properties of find_binding_sites.  They are stated over the arguments   *)
(* and the returned list with definitions of their own, not with the       *)
(* operators of the model above.                                           *)
(***************************************************************************)
Returned == pc = "find_binding_sites"

p_len_arg == Len(search_seq)
t_len_arg == Len(template)

\* The window of the template at 0-based start i.
WindowAt(i) == SubSeq(template, i + 1, i + p_len_arg)

\* 1-based positions at which two equally long strings differ.
DiffPositions(x, y) == {j \in 1..Len(x) : x[j] # y[j]}

Hamming(x, y) == Cardinality(DiffPositions(x, y))

Starts == {sites[n].start : n \in DOMAIN sites}

WellFormedCall == t_len_arg > 0 /\ p_len_arg > 0 /\ p_len_arg <= t_len_arg

\* C1: for a non-empty template, a non-empty probe no longer than it and a
\* budget k >= 0, a site with start i + 1 is returned for a 0-based window
\* start i in [0, |T| - |P|] iff the literal Hamming distance of that window
\* to the probe is <= k, and no site is reported outside that range.
C1_SiteIffWithinBudget ==
    (Returned /\ WellFormedCall /\ max_mismatches >= 0) =>
        /\ \A i \in 0..(t_len_arg - p_len_arg) :
              (i + 1 \in Starts) <=> (Hamming(WindowAt(i), search_seq) <= max_mismatches)
        /\ \A n \in DOMAIN sites : sites[n].start - 1 \in 0..(t_len_arg - p_len_arg)

\* A call that accepts a window at the budget exactly, one involving the
\* wildcard N compared literally, and rejects another window.
W1_AcceptedAtBudgetAndRejected ==
    /\ Returned /\ WellFormedCall /\ max_mismatches >= 1
    /\ \E i \in 0..(t_len_arg - p_len_arg) :
          /\ Hamming(WindowAt(i), search_seq) = max_mismatches
          /\ i + 1 \in Starts
          /\ \E j \in DiffPositions(WindowAt(i), search_seq) : search_seq[j] = "N"
    /\ \E i \in 0..(t_len_arg - p_len_arg) : i + 1 \notin Starts

\* 1-based positions at which the probe occurs verbatim in the template.
Occurrences ==
    {q \in 1..(t_len_arg - p_len_arg + 1) : SubSeq(template, q, q + p_len_arg - 1) = search_seq}

Ascending == \A m, n \in DOMAIN sites : m < n => sites[m].start < sites[n].start

\* C2: with max_mismatches = 0 and the forward orientation the returned sites
\* are exactly the 1-based positions at which the (non-empty) probe occurs
\* verbatim in the template, one site per occurrence, in ascending order,
\* each with mismatch count 0.
C2_ExactMatchOracle ==
    (Returned /\ max_mismatches = 0 /\ ~is_reverse /\ p_len_arg > 0) =>
        /\ Starts = Occurrences
        /\ Len(sites) = Cardinality(Occurrences)
        /\ Ascending
        /\ \A n \in DOMAIN sites : sites[n].mismatches = 0

\* An exact search that finds overlapping occurrences, the last of them in
\* the last window, and passes over a window that is no occurrence.
W2_OverlappingOccurrences ==
    /\ Returned /\ max_mismatches = 0 /\ ~is_reverse /\ p_len_arg >= 2
    /\ Len(sites) >= 2
    /\ sites[2].start <= sites[1].end
    /\ sites[Len(sites)].end = t_len_arg
    /\ Len(sites) < t_len_arg - p_len_arg + 1

\* C3: the returned list is strictly ascending in start position, for every
\* input and both orientations.
C3_StrictlyAscending == Returned => Ascending

W3_SeveralSitesReverse == Returned /\ is_reverse /\ Len(sites) >= 3 /\ max_mismatches >= 1

\* C4: every returned site has end - start + 1 = |probe|, 1 <= start,
\* end <= |template| and mismatches <= max_mismatches.
C4_SiteInvariant ==
    Returned => \A n \in DOMAIN sites :
        /\ sites[n].end - sites[n].start + 1 = p_len_arg
        /\ 1 <= sites[n].start
        /\ sites[n].end <= t_len_arg
        /\ sites[n].mismatches <= max_mismatches

\* A site in the last window of the template that uses the whole budget.
W4_LastWindowAtBudget ==
    /\ Returned /\ max_mismatches >= 1
    /\ \E n \in DOMAIN sites :
          sites[n].end = t_len_arg /\ sites[n].mismatches = max_mismatches

\* Positions of the probe that form its 3' end: the last 5 for the forward
\* orientation, the first 5 for the reverse one (all positions of a probe
\* shorter than 5).
ThreePrimePositions ==
    IF is_reverse THEN {j \in 1..p_len_arg : j <= 5}
    ELSE {j \in 1..p_len_arg : j > p_len_arg - 5}

\* C5: for every accepted window three_prime_mismatches is the number of
\* mismatching positions among the last 5 positions of the window when the
\* orientation is forward and among the first 5 when it is reverse.
C5_ThreePrimeCount ==
    Returned => \A n \in DOMAIN sites :
        sites[n].three_prime_mismatches =
            Cardinality(DiffPositions(WindowAt(sites[n].start - 1), search_seq)
                        \cap ThreePrimePositions)

\* A forward site of a probe longer than 5 with a mismatch inside and a
\* mismatch outside the 3' end.
W5_MismatchInsideAndOutsideTail ==
    /\ Returned /\ ~is_reverse /\ p_len_arg > 5
    /\ \E n \in DOMAIN sites :
          /\ sites[n].mismatches = 2
          /\ sites[n].three_prime_mismatches = 1

OnlyFirstPositionDiffers(n) ==
    DiffPositions(WindowAt(sites[n].start - 1), search_seq) = {1}

\* C6 as stated: for every probe of length >= 5 and accepted window whose
\* only mismatch is at position 0 (0-based), the forward orientation reports
\* three_prime_mismatches = 0 and the reverse orientation reports 1.
C6_TailAsymmetryFromLength5 ==
    (Returned /\ p_len_arg >= 5) => \A n \in DOMAIN sites :
        OnlyFirstPositionDiffers(n) =>
            sites[n].three_prime_mismatches = (IF is_reverse THEN 1 ELSE 0)

\* C6 amended: the same for every probe of length >= 6.  (A probe of length
\* exactly 5 is its own 3' end, so the forward orientation reports 1 too.)
C6_TailAsymmetryFromLength6 ==
    (Returned /\ p_len_arg >= 6) => \A n \in DOMAIN sites :
        OnlyFirstPositionDiffers(n) =>
            sites[n].three_prime_mismatches = (IF is_reverse THEN 1 ELSE 0)

\* A forward site of a probe of length 6 whose only mismatch is at position
\* 0, reported with no 3' mismatch.
W6_ForwardFirstPositionOnly ==
    /\ Returned /\ ~is_reverse /\ p_len_arg >= 6
    /\ \E n \in DOMAIN sites :
          OnlyFirstPositionDiffers(n) /\ sites[n].three_prime_mismatches = 0

IsSite(x) ==
    /\ DOMAIN x = {"start", "end", "mismatches", "three_prime_mismatches", "sequence"}
    /\ x.start \in Int /\ x.end \in Int
    /\ x.mismatches \in Nat /\ x.three_prime_mismatches \in Nat

\* C7: find_binding_sites returns a list for every pair of strings, and the
\* empty list when the probe is longer than the template or the template or
\* the probe is empty.
C7_EmptyListOnDegenerateInput ==
    Returned =>
        /\ \A n \in DOMAIN sites : IsSite(sites[n])
        /\ (t_len_arg = 0 \/ p_len_arg = 0 \/ p_len_arg > t_len_arg) => sites = <<>>

\* An empty probe searched in a non-empty template with a budget >= 0.
W7_EmptyProbe ==
    Returned /\ p_len_arg = 0 /\ t_len_arg > 0 /\ max_mismatches >= 0 /\ sites = <<>>

\* C8: with a negative max_mismatches the result is the empty list, even
\* when the probe occurs verbatim.
C8_NegativeBudgetNeverMatches == (Returned /\ max_mismatches < 0) => sites = <<>>

W8_NegativeBudgetVerbatim ==
    Returned /\ max_mismatches < 0 /\ p_len_arg > 0 /\ Occurrences # {} /\ sites = <<>>

(***************************************************************************)
(* Properties of run_virtual_pcr.                                          *)
(***************************************************************************)
PcrReturned == pc = "run_virtual_pcr"

\* C10: every candidate returned by run_virtual_pcr has
\* 1 <= product_size <= max_product_size, where product_size is
\* reverse_site.end - forward_site.start + 1.
C10_ProductSizeBounded ==
    PcrReturned => \A n \in DOMAIN products :
        /\ products[n].size = products[n].rev_end - products[n].fwd_start + 1
        /\ 1 <= products[n].size
        /\ products[n].size <= max_product

\* A call that returns a candidate of exactly max_product although the two
\* primers also have a pair of sites, in amplicon direction, that is larger.
W10_CandidateAtLimitAndLargerPairDropped ==
    /\ PcrReturned
    /\ \E n \in DOMAIN products : products[n].size = max_product
    /\ LET fs == find_binding_sites(template, fwd, max_mismatches, FALSE)
           rs == find_binding_sites(template, reverse_complement(rev), max_mismatches, TRUE)
       IN  \E a \in DOMAIN fs, b \in DOMAIN rs :
              fs[a].start < rs[b].end /\ rs[b].end - fs[a].start + 1 > max_product

\* C11: every candidate returned by run_virtual_pcr has
\* forward_site.start < reverse_site.end.
C11_ForwardStartBeforeReverseEnd ==
    PcrReturned => \A n \in DOMAIN products : products[n].fwd_start < products[n].rev_end

\* A call that returns a candidate and passes over a pair of sites whose
\* forward start is not before the reverse end.
W11_PairAgainstDirectionDropped ==
    /\ PcrReturned /\ products # <<>>
    /\ \E a \in DOMAIN fwd_sites, b \in DOMAIN rev_sites :
          fwd_sites[a].start >= rev_sites[b].end

\* C12: in every candidate the reverse site lies after the forward site,
\* reverse_site.start > forward_site.end, so the sites do not overlap and
\* product_size is at least |forward_primer| + |reverse_primer|.
C12_ReverseSiteAfterForwardSite ==
    PcrReturned => \A n \in DOMAIN products :
        /\ products[n].rev_start > products[n].fwd_end
        /\ products[n].size >= Len(fwd) + Len(rev)

\* Position of a candidate in the enumeration of the cross product: forward
\* sites in the outer loop, reverse sites in the inner loop, both ascending
\* in start.
EnumeratedBefore(x, y) ==
    \/ x.fwd_start < y.fwd_start
    \/ x.fwd_start = y.fwd_start /\ x.rev_start < y.rev_start

\* C13: the returned list is sorted ascending by product_size, and
\* candidates of equal product_size are in cross-product enumeration order.
C13_SortedBySizeStable ==
    PcrReturned => \A m, n \in DOMAIN products : m < n =>
        \/ products[m].size < products[n].size
        \/ products[m].size = products[n].size /\ EnumeratedBefore(products[m], products[n])

\* A result with two candidates of equal size in which the sort has moved a
\* candidate in front of one enumerated earlier.
W13_TieAndReordered ==
    /\ PcrReturned
    /\ \E m, n \in DOMAIN products : m < n /\ products[m].size = products[n].size
    /\ \E m, n \in DOMAIN products : m < n /\ EnumeratedBefore(products[n], products[m])

\* Pairs of site indices that satisfy the direction and the size constraint.
QualifyingPairs ==
    {q \in (DOMAIN fwd_sites) \X (DOMAIN rev_sites) :
        /\ fwd_sites[q[1]].start < rev_sites[q[2]].end
        /\ rev_sites[q[2]].end - fwd_sites[q[1]].start + 1 <= max_product}

\* The candidate of a pair of sites, with the counts of its own sites.
CandidateOf(f, r) ==
    [fwd_start |-> f.start, fwd_end |-> f.end,
     rev_start |-> r.start, rev_end |-> r.end,
     size |-> r.end - f.start + 1,
     fwd_mismatches |-> f.mismatches, rev_mismatches |-> r.mismatches,
     fwd_3prime_mm |-> f.three_prime_mismatches,
     rev_3prime_mm |-> r.three_prime_mismatches]

\* C14: run_virtual_pcr returns exactly one candidate for each pair (f, r),
\* f in find_binding_sites(template, forward_primer, k, forward) and r in
\* find_binding_sites(template, reverse_complement(reverse_primer), k,
\* reverse) (the lists fwd_sites and rev_sites of the call), with f.start < r.end and r.end - f.start + 1 <= max_product_size;
\* no qualifying pair is dropped or duplicated and each candidate carries the
\* counts of its own f and r.
C14_OneCandidatePerQualifyingPair ==
    PcrReturned =>
        /\ Len(products) = Cardinality(QualifyingPairs)
        /\ \A q \in QualifyingPairs :
              Cardinality({n \in DOMAIN products :
                  products[n] = CandidateOf(fwd_sites[q[1]], rev_sites[q[2]])}) = 1
        /\ \A n \in DOMAIN products : \E q \in QualifyingPairs :
              products[n] = CandidateOf(fwd_sites[q[1]], rev_sites[q[2]])

\* A result with several candidates, one of them with different mismatch
\* counts on its two sites, while some pair of sites was dropped.
W14_SeveralCandidatesDistinctCounts ==
    /\ PcrReturned /\ Len(products) >= 2
    /\ \E n \in DOMAIN products : products[n].fwd_mismatches # products[n].rev_mismatches
    /\ Len(products) < Len(fwd_sites) * Len(rev_sites)

\* C15: run_virtual_pcr returns the empty list when the template is empty,
\* when either primer is empty, when either primer has no binding site
\* within the budget, or when no pair of sites satisfies the constraints.
C15_EmptyResult ==
    PcrReturned =>
        ((\/ template = <<>>
          \/ fwd = <<>>
          \/ rev = <<>>
          \/ find_binding_sites(template, fwd, max_mismatches, FALSE) = <<>>
          \/ find_binding_sites(template, reverse_complement(rev), max_mismatches, TRUE) = <<>>
          \/ QualifyingPairs = {})
         => products = <<>>)

\* An empty forward primer with a reverse primer that binds a non-empty
\* template, and a limit that would admit a product.
W15_EmptyForwardPrimer ==
    /\ PcrReturned /\ fwd = <<>> /\ template # <<>> /\ max_mismatches >= 0
    /\ rev_sites # <<>> /\ max_product >= Len(template)
    /\ products = <<>>

(***************************************************************************)
(* The two decamer scenarios.                                              *)
(***************************************************************************)
ExactSite(a, b, bases) ==
    [start |-> a, end |-> b, mismatches |-> 0, three_prime_mismatches |-> 0,
     sequence |-> bases]

ExactCandidate(fa, fb, ra, rb) ==
    [fwd_start |-> fa, fwd_end |-> fb, rev_start |-> ra, rev_end |-> rb,
     size |-> rb - fa + 1,
     fwd_mismatches |-> 0, rev_mismatches |-> 0, fwd_3prime_mm |-> 0, rev_3prime_mm |-> 0]

TwoDecamersRun ==
    /\ PcrReturned /\ template = TwoDecamers /\ fwd = Decamer /\ rev = DecamerRc
    /\ max_mismatches = 0 /\ max_product >= 20

\* C16 as stated: on AAAAACCCCCAAAAACCCCC with forward primer AAAAACCCCC,
\* reverse primer GGGGGTTTTT, max_mismatches = 0 and max_product_size >= 20
\* the forward primer binds at 1-10 and 11-20, the reverse primer does not
\* bind, and run_virtual_pcr returns the empty list.
C16_ReversePrimerDoesNotBind ==
    TwoDecamersRun =>
        /\ fwd_sites = <<ExactSite(1, 10, Decamer), ExactSite(11, 20, Decamer)>>
        /\ rev_sites = <<>>
        /\ products = <<>>

\* C16 amended: in that run the forward primer binds at 1-10 and 11-20, the
\* reverse primer, searched as its reverse complement AAAAACCCCC, binds at
\* 1-10 and 11-20 too, and run_virtual_pcr returns three candidates:
\* forward 1-10 with reverse 1-10 (size 10), forward 11-20 with reverse
\* 11-20 (size 10), forward 1-10 with reverse 11-20 (size 20).
C16_ReversePrimerBindsAsReverseComplement ==
    TwoDecamersRun =>
        /\ fwd_sites = <<ExactSite(1, 10, Decamer), ExactSite(11, 20, Decamer)>>
        /\ rev_sites = <<ExactSite(1, 10, Decamer), ExactSite(11, 20, Decamer)>>
        /\ products = <<ExactCandidate(1, 10, 1, 10), ExactCandidate(11, 20, 11, 20),
                        ExactCandidate(1, 10, 11, 20)>>

W16_TwoDecamersRunAtLimit20 == TwoDecamersRun /\ max_product = 20 /\ Len(products) = 3

DecamerThenRcRun ==
    /\ PcrReturned /\ template = DecamerThenRc /\ fwd = Decamer /\ rev = Decamer
    /\ max_mismatches = 0 /\ max_product >= 20

\* C17: on AAAAACCCCCGGGGGTTTTT with forward primer AAAAACCCCC, reverse
\* primer AAAAACCCCC, max_mismatches = 0 and max_product_size >= 20,
\* run_virtual_pcr returns exactly one candidate: forward site 1-10, reverse
\* site 11-20, product_size 20, both mismatch counts 0.
C17_OneAmpliconOfSize20 ==
    DecamerThenRcRun =>
        /\ Len(products) = 1
        /\ products[1].fwd_start = 1 /\ products[1].fwd_end = 10
        /\ products[1].rev_start = 11 /\ products[1].rev_end = 20
        /\ products[1].size = 20
        /\ products[1].fwd_mismatches = 0 /\ products[1].rev_mismatches = 0

W17_DecamerThenRcRunAtLimit20 ==
    DecamerThenRcRun /\ max_product = 20 /\ products # <<>>

(***************************************************************************)
(* Properties of reverse_complement.                                       *)
(***************************************************************************)
ComplementPairs ==
    {<<"A", "T">>, <<"G", "C">>, <<"N", "N">>, <<"R", "Y">>, <<"S", "S">>,
     <<"W", "W">>, <<"K", "M">>, <<"B", "V">>, <<"D", "H">>}

ComplementOf(x) ==
    CHOOSE y \in IupacBases : <<x, y>> \in ComplementPairs \/ <<y, x>> \in ComplementPairs

OverIupac(s) == \A j \in DOMAIN s : s[j] \in IupacBases

\* C18: for every sequence s over the 15 symbols, reverse_complement(s) has
\* the length of s, its i-th symbol is the complement of the (|s|-1-i)-th
\* symbol of s, and reverse_complement(reverse_complement(s)) = s.
C18_ReverseComplement ==
    (pc \in {"reverse_complement", "reverse_complement_twice"} /\ OverIupac(seq)) =>
        /\ Len(rc) = Len(seq)
        /\ \A j \in 1..Len(seq) : rc[j] = ComplementOf(seq[Len(seq) + 1 - j])
        /\ pc = "reverse_complement_twice" => rc_of_rc = seq

\* A string of three different symbols, one of them K, complemented twice.
W18_ThreeSymbolsTwice ==
    /\ pc = "reverse_complement_twice" /\ OverIupac(seq) /\ Len(seq) = 3
    /\ seq[1] = "K" /\ seq[2] = "A" /\ seq[3] = "R"
    /\ rc_of_rc = seq

(***************************************************************************)
(* Properties of the junction annotation.                                  *)
(***************************************************************************)
JunctionsReturned == pc = "exon_junctions_0based"
AnnotationReturned == pc = "annotate_primers_with_junctions"

\* C19: the junction list is the sequence of the end coordinates of every
\* exon except the last, in list order; an empty or single-exon list yields
\* no junction, and with no junction every primer of every pair is annotated
\* fwd_spans_junction = false and rev_spans_junction = false.
C19_JunctionsAreEndsButLast ==
    /\ JunctionsReturned =>
          /\ Len(junctions) = (IF Len(exons_1b) = 0 THEN 0 ELSE Len(exons_1b) - 1)
          /\ \A n \in DOMAIN junctions : junctions[n] = exons_1b[n][2]
          /\ Len(exons_1b) <= 1 => junctions = <<>>
    /\ (AnnotationReturned /\ junctions = <<>>) =>
          /\ Len(annotated) = Len(primers)
          /\ \A n \in DOMAIN annotated :
                /\ annotated[n].fwd_spans_junction = FALSE
                /\ annotated[n].rev_spans_junction = FALSE

\* A list of three exons whose ends are not in ascending order: the
\* junctions are the first two ends as they stand.
W19_ThreeExonsEndsOutOfOrder ==
    /\ JunctionsReturned /\ Len(exons_1b) = 3
    /\ exons_1b[1][2] > exons_1b[2][2]
    /\ exons_1b[3][2] # exons_1b[2][2]
    /\ Len(junctions) = 2

\* The spanning predicate of the specification on a span [a, b).
Straddles(a, b, j, tail) == a < j /\ j < b /\ j - a >= tail /\ b - j >= tail

JunctionSet == {junctions[n] : n \in DOMAIN junctions}

\* C20: for each pair fwd_spans_junction is true iff some junction j of the
\* list has a < j < b, j - a >= min_tail and b - j >= min_tail for
\* [a, b) = [left_start, left_start + left_length), and rev_spans_junction
\* is true iff some junction has it for
\* [a, b) = [right_start - right_length, right_start).
C20_FlagsIffSomeJunctionStraddled ==
    AnnotationReturned =>
        /\ Len(annotated) = Len(primers)
        /\ \A n \in DOMAIN primers :
              LET p == primers[n] IN
              /\ annotated[n].fwd_spans_junction =
                    (\E j \in JunctionSet :
                        Straddles(p.left_start, p.left_start + p.left_length, j, min_tail))
              /\ annotated[n].rev_spans_junction =
                    (\E j \in JunctionSet :
                        Straddles(p.right_start - p.right_length, p.right_start, j, min_tail))

\* Two pairs with opposite flags, found through the second of two junctions
\* with min_tail = 2.
W20_OppositeFlagsSecondJunction ==
    /\ AnnotationReturned /\ Len(annotated) = 2 /\ Len(junctions) = 2 /\ min_tail = 2
    /\ annotated[1].fwd_spans_junction /\ ~annotated[1].rev_spans_junction
    /\ ~annotated[2].fwd_spans_junction /\ annotated[2].rev_spans_junction
    /\ ~Straddles(primers[1].left_start, primers[1].left_start + primers[1].left_length,
                  junctions[1], min_tail)

(***************************************************************************)
(* Properties of the junction branch of the design flow.                   *)
(***************************************************************************)
FlowDone == pc = "design_flow"

\* Exon n as a half-open 0-based interval contains the span [a, b).
InsideExon(n, a, b) == exons_1b[n][1] - 1 <= a /\ b <= exons_1b[n][2]

SortedNonOverlapping ==
    \A n \in 1..(Len(exons_1b) - 1) : exons_1b[n][2] < exons_1b[n + 1][1]

\* Both spans of the pair p lie inside one exon.
InsideOneExon(p) ==
    \E n \in DOMAIN exons_1b :
        /\ InsideExon(n, p.left_start, p.left_start + p.left_length)
        /\ InsideExon(n, p.right_start - p.right_length, p.right_start)

\* C21: for sorted non-overlapping exon intervals and min_tail >= 1, a pair
\* whose forward and reverse spans both lie inside a single exon is annotated
\* fwd_spans_junction = false and rev_spans_junction = false.
C21_InsideOneExonNoFlag ==
    (FlowDone /\ SortedNonOverlapping /\ min_tail >= 1) =>
        \A n \in DOMAIN primers_given :
            InsideOneExon(primers_given[n]) =>
                /\ ~annotated[n].fwd_spans_junction
                /\ ~annotated[n].rev_spans_junction

\* Two exons with a junction between them; the first pair lies inside the
\* first exon and ends on the junction, the second pair has a primer across it.
W21_PairInsideExonNextToJunction ==
    /\ FlowDone /\ SortedNonOverlapping /\ Len(junctions) >= 1
    /\ Len(primers_given) = 2
    /\ InsideOneExon(primers_given[1])
    /\ primers_given[1].right_start = junctions[1]
    /\ ~annotated[1].fwd_spans_junction /\ ~annotated[1].rev_spans_junction
    /\ annotated[2].fwd_spans_junction

(***************************************************************************)
(* Properties of the spanning predicate.                                   *)
(***************************************************************************)
SpanReturned == pc = "spans_junction"

\* The value v agrees with the tail rule on the span [a, b) and junction j:
\* true with both tails exactly min_tail, false with one tail at
\* min_tail - 1 and the other at min_tail.
TailRule(a, b, j, v) ==
    /\ (j - a = min_tail /\ b - j = min_tail) => v
    /\ (j - a = min_tail - 1 /\ b - j = min_tail) => ~v
    /\ (j - a = min_tail /\ b - j = min_tail - 1) => ~v

\* C22: for min_tail >= 1, a span [a, b) and junction j with
\* j - a = min_tail and b - j = min_tail satisfy the spanning predicate;
\* with only the left tail, or only the right tail, at min_tail - 1 the
\* predicate is false, and so is the corresponding flag when j is the only
\* junction.
C22_TailsExactlyMinTail ==
    /\ (SpanReturned /\ min_tail >= 1) =>
          TailRule(primer_start, primer_start + primer_len, junction, spans)
    /\ (AnnotationReturned /\ min_tail >= 1 /\ Len(junctions) = 1) =>
          \A n \in DOMAIN primers_given :
              LET p == primers_given[n] IN
              /\ TailRule(p.left_start, p.left_start + p.left_length, junctions[1],
                          annotated[n].fwd_spans_junction)
              /\ TailRule(p.right_start - p.right_length, p.right_start, junctions[1],
                          annotated[n].rev_spans_junction)

\* One junction with min_tail = 2: the forward primer has both tails at 2 and
\* is flagged, the reverse primer has its right tail at 1 and is not.
W22_ForwardExactReverseOneShort ==
    /\ AnnotationReturned /\ min_tail = 2 /\ Len(junctions) = 1 /\ Len(primers_given) = 1
    /\ junctions[1] - primers_given[1].left_start = 2
    /\ primers_given[1].left_start + primers_given[1].left_length - junctions[1] = 2
    /\ annotated[1].fwd_spans_junction
    /\ junctions[1] - (primers_given[1].right_start - primers_given[1].right_length) = 2
    /\ primers_given[1].right_start - junctions[1] = 1
    /\ ~annotated[1].rev_spans_junction

\* Indices of the designed pairs with at least one flag set.
KeptIndices ==
    {n \in DOMAIN primers_given :
        annotated[n].fwd_spans_junction \/ annotated[n].rev_spans_junction}

\* Indices at which pair_id id stands in the designed list.
PositionsOf(id) == {n \in DOMAIN primers_given : primers_given[n].pair_id = id}

\* C23: in the junction-enforcing design flow a designed pair is kept in the
\* filtered result iff fwd_spans_junction or rev_spans_junction is true for
\* it; the kept pairs appear once each, in their design order.
C23_KeptIffEitherFlag ==
    FlowDone =>
        /\ \A n \in DOMAIN primers_given :
              (n \in KeptIndices) <=>
                  (\E m \in DOMAIN filtered_primers :
                      filtered_primers[m].pair_id = primers_given[n].pair_id)
        /\ Len(filtered_primers) = Cardinality(KeptIndices)
        /\ \A m \in DOMAIN filtered_primers :
              \E n \in PositionsOf(filtered_primers[m].pair_id) :
                  /\ filtered_primers[m].left_start = primers_given[n].left_start
                  /\ filtered_primers[m].left_length = primers_given[n].left_length
                  /\ filtered_primers[m].right_start = primers_given[n].right_start
                  /\ filtered_primers[m].right_length = primers_given[n].right_length
        /\ \A m1, m2 \in DOMAIN filtered_primers :
              m1 < m2 =>
                  \A n1 \in PositionsOf(filtered_primers[m1].pair_id),
                     n2 \in PositionsOf(filtered_primers[m2].pair_id) : n1 < n2

\* The first pair has no flag and is dropped; the second has only its
\* reverse flag set and is kept.
W23_DroppedThenKeptOnReverseFlag ==
    /\ FlowDone /\ Len(primers_given) = 2
    /\ KeptIndices = {2}
    /\ ~annotated[2].fwd_spans_junction /\ annotated[2].rev_spans_junction
    /\ Len(filtered_primers) = 1 /\ filtered_primers[1].pair_id = 1

FlagNames == {"fwd_spans_junction", "rev_spans_junction"}

\* C24: annotate_primers_with_junctions returns one record per input pair,
\* in input order, with every original field at its original value plus
\* exactly the two booleans; the input records and the junction list are as
\* they were before the call.
C24_NewRecordsInputsUntouched ==
    AnnotationReturned =>
        /\ Len(annotated) = Len(primers_given)
        /\ \A n \in DOMAIN annotated :
              /\ DOMAIN annotated[n] = DOMAIN primers_given[n] \cup FlagNames
              /\ DOMAIN primers_given[n] \cap FlagNames = {}
              /\ \A k \in DOMAIN primers_given[n] : annotated[n][k] = primers_given[n][k]
              /\ annotated[n].fwd_spans_junction \in BOOLEAN
              /\ annotated[n].rev_spans_junction \in BOOLEAN
        /\ primers = primers_given
        /\ junctions = junctions_given

\* Two pairs annotated against two junctions, with a flag set on each.
W24_TwoPairsFlagged ==
    /\ AnnotationReturned /\ Len(primers_given) = 2 /\ Len(junctions_given) = 2
    /\ annotated[1].fwd_spans_junction /\ annotated[2].rev_spans_junction
    /\ primers_given[1].left_start # primers_given[2].left_start
    /\ primers = primers_given

\* C25: during annotation and filtering in the design flow the records
\* produced by design_primers are never mutated in place: no attribute is
\* added to or changed on an original PrimerResult.
C25_DesignedPairsNotMutated == FlowDone => primers = primers_given

(***************************************************************************)
(* Properties of the exon lists handed to the junction logic.              *)
(***************************************************************************)
ExonsReturned ==
    pc \in {"parse_exons_1based", "fetch_sequence_and_exons",
            "fetch_sequence_and_exons_failed"}

\* C26: every exon list that reaches the junction logic from
\* parse_exons_1based or fetch_sequence_and_exons is sorted ascending by
\* start, pairwise non-overlapping, and made of intervals with
\* 1 <= start <= end.
C26_ExonsSortedDisjointPositive ==
    ExonsReturned =>
        /\ \A n \in 1..(Len(exons_1b) - 1) : exons_1b[n][1] <= exons_1b[n + 1][1]
        /\ \A m, n \in DOMAIN exons_1b : m < n => exons_1b[m][2] < exons_1b[n][1]
        /\ \A n \in DOMAIN exons_1b : 1 <= exons_1b[n][1] /\ exons_1b[n][1] <= exons_1b[n][2]

(***************************************************************************)
(* Further properties of find_binding_sites.                               *)
(***************************************************************************)
\* C27: for every site returned by find_binding_sites, in either
\* orientation, three_prime_mismatches <= mismatches and
\* three_prime_mismatches <= min(5, |probe|); for probes of length <= 5 the
\* two counts are equal.
C27_ThreePrimeCountBounded ==
    Returned => \A n \in DOMAIN sites :
        /\ sites[n].three_prime_mismatches <= sites[n].mismatches
        /\ sites[n].three_prime_mismatches <= (IF p_len_arg < 5 THEN p_len_arg ELSE 5)
        /\ p_len_arg <= 5 => sites[n].three_prime_mismatches = sites[n].mismatches

\* A probe of 6 symbols that mismatches a window everywhere, searched in
\* reverse orientation: 6 mismatches, 5 of them at the 3' end.
W27_SixMismatchesFiveAtThreePrime ==
    /\ Returned /\ is_reverse /\ p_len_arg = 6
    /\ \E n \in DOMAIN sites :
          sites[n].mismatches = 6 /\ sites[n].three_prime_mismatches = 5

BothReturned == pc = "find_binding_sites_in_both_orientations"

\* C28: for identical template, probe and max_mismatches the forward and
\* the reverse search return lists of the same length whose corresponding
\* sites agree on start, end, mismatches and sequence; only
\* three_prime_mismatches depends on the orientation.
C28_OrientationChangesOnlyThreePrime ==
    BothReturned =>
        /\ Len(sites_forward) = Len(sites_reverse)
        /\ \A n \in DOMAIN sites_forward :
              /\ DOMAIN sites_forward[n] = DOMAIN sites_reverse[n]
              /\ \A k \in DOMAIN sites_forward[n] \ {"three_prime_mismatches"} :
                    sites_forward[n][k] = sites_reverse[n][k]

\* A probe of 6 symbols with a site of one mismatch, which the two
\* orientations count differently at the 3' end.
W28_ThreePrimeDiffers ==
    /\ BothReturned /\ Len(search_seq) = 6 /\ Len(sites_forward) = 1
    /\ sites_forward[1].mismatches = 1
    /\ sites_forward[1].three_prime_mismatches # sites_reverse[1].three_prime_mismatches

(***************************************************************************)
(* Properties of run_blast_check.                                          *)
(***************************************************************************)
BlastReturned == pc = "run_blast_check"

\* What holds of the queries and sleeps of a run at every moment, and of the
\* error message when the run has returned.
RetryDiscipline ==
    /\ queries <= max_retries
    /\ queries <= raised + 1
    /\ raised <= queries
    /\ slept = [i \in 1..Len(slept) |-> 5 * i]
    /\ Len(slept) = (IF raised < max_retries THEN raised ELSE max_retries - 1)
    /\ BlastReturned =>
          /\ (error_message # "") <=> (raised = max_retries)
          /\ (error_message = "") => queries = raised + 1

C30_FailedAttemptLeavesNoTrace ==
    BlastReturned =>
        /\ hits = (IF queries > raised THEN blast_record ELSE <<>>)
        /\ total_hits = Len(hits)

====
